---- MODULE Spec2Model ----
(***************************************************************************)
(* Model of spark/import-pmml/spark-mllib-import-python.ipynb: a Jupyter   *)
(* notebook whose code cells train a Spark MLlib pipeline, store it in a   *)
(* Watson Machine Learning repository, deploy it and score it.             *)
(*                                                                         *)
(* The state is the kernel's namespace (which names are bound, and to      *)
(* what), the notebook working directory, the installed pip packages, and  *)
(* what the Watson Machine Learning service has been asked and has done.   *)
(* There is one action per code cell.  A cell runs its statements in       *)
(* order and stops at the first one that raises: a NameError when a name   *)
(* it reads is unbound, an ImportError when the package is not installed,  *)
(* or a failure of the network, file system or service.  The cells may be  *)
(* run in any order and any number of times, as a notebook allows; running *)
(* them top to bottom is one of the behaviours.                            *)
(***************************************************************************)
EXTENDS Integers, Sequences, FiniteSets, TLC

\* Bounds of the model: how many models the repository accepts and how many
\* deployments the service accepts before it refuses a request.
MaxModels == 2
MaxDeployments == 2
\* How many client calls a behaviour makes before the model stops it.
MaxCalls == 5

-----------------------------------------------------------------------------
\* Values a name of the kernel's namespace can hold.

Unbound == [tag |-> "unbound"]
Obj == [tag |-> "object"]
GuidVal(g) == [tag |-> "guid", id |-> g]
UrlVal(d) == [tag |-> "scoring_url", deployment |-> d]
\* What store_model returns: the stored model's details, guid under "metadata".
StoredModelDetails(g) == [tag |-> "model_details", metadata |-> [guid |-> GuidVal(g)]]
\* What deployments.create returns: the deployment's details.
DeploymentDetails(d, a) ==
    [tag |-> "deployment_details",
     metadata |-> [guid |-> d],
     entity |-> [scoring_url |-> UrlVal(d), deployable_asset |-> a]]

\* Every name a code cell binds.
Names ==
    {"wget", "training_data_url", "filename",
     "SparkSession", "spark", "df",
     "IntegerType", "training_data",
     "StringIndexer", "indexer_GENDER", "indexer_MARITAL_STATUS", "indexer_PROFESSION",
     "Vectors", "VectorAssembler", "feature_vector_assembler",
     "LogisticRegression", "lr",
     "Pipeline", "pipeline_org",
     "train_org", "test",
     "pipeline_model_org",
     "predictions_org", "correct_false_org", "correct_true_org",
     "PipelineModel", "pipeline_model", "pipeline", "train",
     "WatsonMachineLearningAPIClient", "wml_credentials", "client",
     "model_details", "model_id", "deployment_details",
     "model_endpoint_url", "payload", "test_df"}

\* Packages of the notebook's runtime ("runs on Spark Python 3.5").
RuntimePackages == {"pyspark"}

-----------------------------------------------------------------------------
\* Statements.  uses: the names the statement reads; binds: the names it
\* binds; fallible: whether it does I/O that can fail.

Import(pkg, names) == [kind |-> "import", pkg |-> pkg, uses |-> {}, binds |-> names, fallible |-> FALSE]
Literal(name, value) == [kind |-> "literal", uses |-> {}, binds |-> {name}, value |-> value, fallible |-> FALSE]
Compute(uses, binds) == [kind |-> "call", uses |-> uses, binds |-> binds, reads |-> {}, writes |-> {}, fallible |-> FALSE]
FileCall(uses, binds, reads, writes) == [kind |-> "call", uses |-> uses, binds |-> binds, reads |-> reads, writes |-> writes, fallible |-> TRUE]
PipInstall(pkg) == [kind |-> "pip", pkg |-> pkg, uses |-> {}, binds |-> {}, fallible |-> TRUE]
Shell == [kind |-> "shell", uses |-> {}, binds |-> {}, fallible |-> FALSE]

\* Calls of the Watson Machine Learning client.
StoreModel == [kind |-> "store_model", uses |-> {"client", "pipeline_model", "train", "pipeline"}, binds |-> {"model_details"}, fallible |-> TRUE]
ModelId == [kind |-> "model_id", uses |-> {"model_details"}, binds |-> {"model_id"}, fallible |-> FALSE]
DeploymentsCreate == [kind |-> "create", uses |-> {"client", "model_id"}, binds |-> {"deployment_details"}, fallible |-> TRUE]
GetScoringUrl == [kind |-> "get_scoring_url", uses |-> {"client", "deployment_details"}, binds |-> {"model_endpoint_url"}, fallible |-> FALSE]
DeploymentsScore == [kind |-> "score", uses |-> {"client", "model_endpoint_url", "payload"}, binds |-> {}, fallible |-> TRUE]

-----------------------------------------------------------------------------
\* The code cells, in the notebook's order.

PipInstallWgetCell == << PipInstall("wget") >>

DownloadCell ==
    << Import("wget", {"wget"}),
       Literal("training_data_url", Obj),
       FileCall({"wget", "training_data_url"}, {"filename"}, {}, {"GoSales.csv"}),
       Compute({"filename"}, {}) >>

ReadDataCell ==
    << Import("pyspark", {"SparkSession"}),
       Compute({"SparkSession"}, {"spark"}),
       FileCall({"spark", "filename"}, {"df"}, {"GoSales.csv"}, {}),
       Compute({"df"}, {}) >>

SelectColumnsCell ==
    << Import("pyspark", {"IntegerType"}),
       Compute({"df", "IntegerType"}, {"training_data"}),
       Compute({"training_data"}, {}) >>

IndexersCell ==
    << Import("pyspark", {"StringIndexer"}),
       Compute({"StringIndexer"}, {"indexer_GENDER"}),
       Compute({"StringIndexer"}, {"indexer_MARITAL_STATUS"}),
       Compute({"StringIndexer"}, {"indexer_PROFESSION"}) >>

AssemblerCell ==
    << Import("pyspark", {"Vectors"}),
       Import("pyspark", {"VectorAssembler"}),
       Compute({"VectorAssembler"}, {"feature_vector_assembler"}) >>

LogisticRegressionCell ==
    << Import("pyspark", {"LogisticRegression"}),
       Compute({"LogisticRegression"}, {"lr"}) >>

PipelineCell ==
    << Import("pyspark", {"Pipeline"}),
       Compute({"Pipeline", "indexer_GENDER", "indexer_MARITAL_STATUS", "indexer_PROFESSION",
                "feature_vector_assembler", "lr"}, {"pipeline_org"}) >>

SplitCell ==
    << Compute({"training_data"}, {"train_org", "test"}),
       Compute({"train_org"}, {}),
       Compute({"test"}, {}) >>

TrainCell == << Compute({"pipeline_org", "train_org"}, {"pipeline_model_org"}) >>

EvaluateCell ==
    << Compute({"pipeline_model_org", "test"}, {"predictions_org"}),
       Compute({"predictions_org"}, {"correct_false_org"}),
       Compute({"predictions_org"}, {"correct_true_org"}),
       Compute({"correct_false_org", "correct_true_org", "predictions_org"}, {}) >>

SaveCell ==
    << FileCall({"pipeline_model_org"}, {}, {}, {"tent-prediction-model"}),
       FileCall({"train_org"}, {}, {}, {"training-data.parquet"}) >>

ListDirectoryCell == << Shell, Shell, Shell, Shell, Shell, Shell >>

LoadCell ==
    << Import("pyspark", {"PipelineModel"}),
       FileCall({"PipelineModel"}, {"pipeline_model"}, {"tent-prediction-model"}, {}),
       Compute({"Pipeline", "pipeline_model_org"}, {"pipeline"}),
       FileCall({"spark"}, {"train"}, {"training-data.parquet"}, {}) >>

PipInstallClientCell == << PipInstall("watson_machine_learning_client") >>

ClientCell ==
    << Import("watson_machine_learning_client", {"WatsonMachineLearningAPIClient"}),
       Literal("wml_credentials", Obj),
       FileCall({"WatsonMachineLearningAPIClient", "wml_credentials"}, {"client"}, {}, {}) >>

StoreCell == << StoreModel >>

\* The deploy cell with the model's guid pasted in as a literal instead of
\* read from model_details.
DeployCellPastedGuid == << Literal("model_id", GuidVal(1)), DeploymentsCreate >>

DeployCell == << ModelId, DeploymentsCreate >>

ScoreCell == << GetScoringUrl, Literal("payload", Obj), DeploymentsScore >>

LocalTestCell ==
    << Compute({"spark"}, {"test_df"}),
       Compute({"pipeline_model", "test_df"}, {}) >>

EmptyCell == << >>

-----------------------------------------------------------------------------
VARIABLES
    ns,              \* the kernel's namespace: name -> value
    files,           \* the files of the notebook working directory
    pkgs,            \* the pip packages installed by the notebook
    repository,      \* the guids of the models the service has stored
    deployments,     \* the deployments the service has created
    calls            \* the calls of the client so far, oldest first

vars == << ns, files, pkgs, repository, deployments, calls >>

Cur ==
    [ns |-> ns, files |-> files, pkgs |-> pkgs, repository |-> repository,
     deployments |-> deployments, calls |-> calls]

Bind(st, names, value) ==
    [st EXCEPT !.ns = [n \in Names |-> IF n \in names THEN value ELSE st.ns[n]]]

\* The statement can start: every name it reads is bound (else NameError),
\* an imported package is there (else ImportError), a file it reads exists.
Ready(s, st) ==
    /\ \A n \in s.uses : st.ns[n] # Unbound
    /\ s.kind = "import" => s.pkg \in st.pkgs \cup RuntimePackages
    /\ s.kind = "call" => s.reads \subseteq st.files

\* The entries of the call log: store_model when it returned (with the guid
\* of its result), deployments.create and deployments.score when called
\* (created: the uid of the deployment the call created, none when it raised).
StoreModelReturned(g) == [op |-> "store_model", guid |-> GuidVal(g)]
CreateCalled(a, created) == [op |-> "create", artifact_uid |-> a, created |-> created]
ScoreCalled(u) == [op |-> "score", url |-> u]

\* The service accepts the request (a refused request raises in the client).
Accepted(s, st) ==
    /\ s.kind = "store_model" => Cardinality(st.repository) < MaxModels
    /\ s.kind = "create" => Cardinality(st.deployments) < MaxDeployments

\* The state after the statement has run to its end.
Exec(s, st) ==
    CASE s.kind = "literal" -> Bind(st, s.binds, s.value)
      [] s.kind = "call" -> [Bind(st, s.binds, Obj) EXCEPT !.files = @ \cup s.writes]
      [] s.kind = "pip" -> [st EXCEPT !.pkgs = @ \cup {s.pkg}]
      [] s.kind = "store_model" ->
            LET g == Cardinality(st.repository) + 1
            IN  [Bind(st, s.binds, StoredModelDetails(g)) EXCEPT
                    !.repository = @ \cup {g},
                    !.calls = Append(@, StoreModelReturned(g))]
      [] s.kind = "model_id" -> Bind(st, s.binds, st.ns["model_details"].metadata.guid)
      [] s.kind = "create" ->
            LET d == Cardinality(st.deployments) + 1
                a == st.ns["model_id"]
            IN  [Bind(st, s.binds, DeploymentDetails(d, a)) EXCEPT
                    !.deployments = @ \cup {[uid |-> d, artifact_uid |-> a]},
                    !.calls = Append(@, CreateCalled(a, {d}))]
      [] s.kind = "get_scoring_url" ->
            Bind(st, s.binds, st.ns["deployment_details"].entity.scoring_url)
      [] s.kind = "score" ->
            [st EXCEPT !.calls = Append(@, ScoreCalled(st.ns["model_endpoint_url"]))]
      [] OTHER -> Bind(st, s.binds, Obj)

\* The state after the statement was started and raised: the call was made,
\* nothing is bound.
Raised(s, st) ==
    CASE s.kind = "create" -> [st EXCEPT !.calls = Append(@, CreateCalled(st.ns["model_id"], {}))]
      [] s.kind = "score" -> [st EXCEPT !.calls = Append(@, ScoreCalled(st.ns["model_endpoint_url"]))]
      [] OTHER -> st

\* The states a cell can end in when its statements i, i+1, ... run from st:
\* the cell stops at the first statement that raises.
RECURSIVE Outcomes(_, _, _)
Outcomes(cell, i, st) ==
    IF i > Len(cell) THEN {st}
    ELSE LET s == cell[i] IN
         IF ~Ready(s, st) THEN {st}
         ELSE (IF s.fallible \/ ~Accepted(s, st) THEN {Raised(s, st)} ELSE {})
              \cup
              (IF Accepted(s, st) THEN Outcomes(cell, i + 1, Exec(s, st)) ELSE {})

\* The states running the cell from the current state can end in.
RunCell(cell) == Outcomes(cell, 1, Cur)

Becomes(st) ==
    /\ ns' = st.ns
    /\ files' = st.files
    /\ pkgs' = st.pkgs
    /\ repository' = st.repository
    /\ deployments' = st.deployments
    /\ calls' = st.calls
    /\ Len(st.calls) <= MaxCalls

\* A fresh kernel in an empty working directory, nothing stored or deployed.
Init ==
    /\ ns = [n \in Names |-> Unbound]
    /\ files = {}
    /\ pkgs = {}
    /\ repository = {}
    /\ deployments = {}
    /\ calls = << >>

RunPipInstallWget == \E st \in RunCell(PipInstallWgetCell) : Becomes(st)
RunDownload == \E st \in RunCell(DownloadCell) : Becomes(st)
RunReadData == \E st \in RunCell(ReadDataCell) : Becomes(st)
RunSelectColumns == \E st \in RunCell(SelectColumnsCell) : Becomes(st)
RunIndexers == \E st \in RunCell(IndexersCell) : Becomes(st)
RunAssembler == \E st \in RunCell(AssemblerCell) : Becomes(st)
RunLogisticRegression == \E st \in RunCell(LogisticRegressionCell) : Becomes(st)
RunPipeline == \E st \in RunCell(PipelineCell) : Becomes(st)
RunSplit == \E st \in RunCell(SplitCell) : Becomes(st)
RunTrain == \E st \in RunCell(TrainCell) : Becomes(st)
RunEvaluate == \E st \in RunCell(EvaluateCell) : Becomes(st)
RunSave == \E st \in RunCell(SaveCell) : Becomes(st)
RunListDirectory == \E st \in RunCell(ListDirectoryCell) : Becomes(st)
RunLoad == \E st \in RunCell(LoadCell) : Becomes(st)
RunPipInstallClient == \E st \in RunCell(PipInstallClientCell) : Becomes(st)
RunClient == \E st \in RunCell(ClientCell) : Becomes(st)
RunStore == \E st \in RunCell(StoreCell) : Becomes(st)
RunDeploy == \E st \in RunCell(DeployCell) : Becomes(st)
RunScore == \E st \in RunCell(ScoreCell) : Becomes(st)
RunLocalTest == \E st \in RunCell(LocalTestCell) : Becomes(st)
RunEmpty == \E st \in RunCell(EmptyCell) : Becomes(st)

Next ==
    \/ RunPipInstallWget
    \/ RunDownload
    \/ RunReadData
    \/ RunSelectColumns
    \/ RunIndexers
    \/ RunAssembler
    \/ RunLogisticRegression
    \/ RunPipeline
    \/ RunSplit
    \/ RunTrain
    \/ RunEvaluate
    \/ RunSave
    \/ RunListDirectory
    \/ RunLoad
    \/ RunPipInstallClient
    \/ RunClient
    \/ RunStore
    \/ RunDeploy
    \/ RunScore
    \/ RunLocalTest
    \/ RunEmpty

Spec == Init /\ [][Next]_vars

-----------------------------------------------------------------------------
\* The call log, read back.

\* The store_model result held when call i was made: the last one returned
\* before it (0 when none had returned).
LastStoreBefore(i) ==
    LET js == {j \in 1..(i - 1) : calls[j].op = "store_model"}
    IN  IF js = {} THEN 0 ELSE CHOOSE j \in js : \A k \in js : k <= j

CreateFollowsStore(i) ==
    /\ LastStoreBefore(i) # 0
    /\ calls[i].artifact_uid = calls[LastStoreBefore(i)].guid

ScoreFollowsCreate(i) ==
    \E j \in 1..(i - 1) :
        /\ calls[j].op = "create"
        /\ \E d \in calls[j].created : calls[i].url = UrlVal(d)

\* C7: storing precedes deploying and deploying precedes scoring.  Every
\* deployments.create call comes after a store_model call that returned, and
\* its artifact_uid is the guid in the metadata of the latest store_model
\* result; every deployments.score call comes after a deployments.create call
\* that created a deployment, and is made on that deployment's scoring URL; no
\* deployment exists for a model that was not stored.
C7_StoreDeployScoreOrder ==
    /\ \A i \in 1..Len(calls) :
          /\ calls[i].op = "create" => CreateFollowsStore(i)
          /\ calls[i].op = "score" => ScoreFollowsCreate(i)
    /\ \A d \in deployments :
          /\ d.artifact_uid.tag = "guid"
          /\ d.artifact_uid.id \in repository

\* C7's case: a model was stored twice and deployed after each store, and the
\* second deployment was scored.
C7_Witness ==
    /\ Len(calls) = 5
    /\ calls[1].op = "store_model"
    /\ calls[2].op = "create" /\ calls[2].created # {}
    /\ calls[3].op = "store_model" /\ calls[3].guid # calls[1].guid
    /\ calls[4].op = "create" /\ calls[4].created # {}
    /\ calls[4].artifact_uid = calls[3].guid
    /\ calls[5].op = "score" /\ \E d \in calls[4].created : calls[5].url = UrlVal(d)

====
